---- MODULE Spec2Model ----
(***************************************************************************)
(* geoid-globe preprocessing: longitude re-centering of the synthesized    *)
(* geoid grid (generate_geoid.py), stride sampling of the raster           *)
(* (convert_raster_to_json.py), polygon-to-boundary decomposition          *)
(* (clean_world_geojson.py) and the three-stage orchestrator (pipeline.py).*)
(*                                                                         *)
(* Longitudes are whole degrees.  A height cell is a record that is either *)
(* NaN or carries an integer value.  Coordinates of geometries are point   *)
(* identifiers (one integer per coordinate pair).                          *)
(***************************************************************************)
EXTENDS Integers, Sequences, FiniteSets, TLC

VARIABLES
    \* generate_geoid
    g_pc,          \* position inside generate_geoid
    array,         \* earth_geoid.to_xarray(): longitude axis and the columns
    new_array,     \* the copy that is re-labelled and sorted
    tif            \* the raster written by save_geoid_as_geotiff

geoidVars == <<g_pc, array, new_array, tif>>

VARIABLES
    \* geotiff_to_json
    s_pc,          \* position inside geotiff_to_json
    raster,        \* rioxarray.open_rasterio(input_path)
    downsample,    \* the stride argument
    data,          \* decimated band 0
    lats,          \* decimated raster.y
    lons,          \* decimated raster.x
    min_val,       \* float(np.nanmin(data))
    max_val,       \* float(np.nanmax(data))
    output_data,   \* the dictionary that is dumped and returned
    json_file,     \* content of output_path, NoFile while absent
    s_err          \* exception leaving geotiff_to_json, "none" otherwise

sampleVars == <<s_pc, raster, downsample, data, lats, lons, min_val, max_val,
                output_data, json_file, s_err>>

VARIABLES
    \* clean_world_geojson
    b_pc,             \* position inside clean_world_geojson
    run,              \* how many times the function has been entered
    gdf,              \* gpd.read_file(source_url)
    gdf_exploded,     \* after the first explode, then with boundaries
    gdf_linestrings,  \* after the second explode
    boundary_file     \* content of output_path, absent at first

boundaryVars == <<b_pc, run, gdf, gdf_exploded, gdf_linestrings, boundary_file>>

VARIABLES
    \* pipeline
    p_pc,          \* position inside main / run_pipeline
    args,          \* the values PipelineConfig is constructed from
    config,        \* the validated PipelineConfig
    fs,            \* the files that exist
    fs0,           \* the files that existed when the run started
    dirs,          \* the directories that exist
    uncreatable,   \* the directories mkdir cannot create
    outcome,       \* how the last stage call ended
    log,           \* the milestones logged so far
    p_err,         \* the exception unwinding run_pipeline, "none" otherwise
    exit_err       \* the exception that left main

pipeVars == <<p_pc, args, config, fs, fs0, dirs, uncreatable, outcome, log, p_err,
              exit_err>>

vars == <<geoidVars, sampleVars, boundaryVars, pipeVars>>

\* the four parts do not share state: each leaves the other three alone
notGeoid == <<sampleVars, boundaryVars, pipeVars>>
notSample == <<geoidVars, boundaryVars, pipeVars>>
notBoundary == <<geoidVars, sampleVars, pipeVars>>
notPipe == <<geoidVars, sampleVars, boundaryVars>>

None == [lon |-> <<>>, col |-> <<>>]

(***************************************************************************)
(* Generic helpers                                                         *)
(***************************************************************************)
Range(s) == {s[i] : i \in 1..Len(s)}

StrictlyIncreasing(s) == \A i \in 1..(Len(s) - 1) : s[i] < s[i + 1]

RECURSIVE SetToSortedSeq(_)
SetToSortedSeq(S) ==
    IF S = {} THEN <<>>
    ELSE LET m == CHOOSE x \in S : \A y \in S : x <= y
         IN  <<m>> \o SetToSortedSeq(S \ {m})

(***************************************************************************)
(* generate_geoid.py                                                       *)
(***************************************************************************)
LonCells == 6                      \* grid intervals of the native axis
HalfTurn == 180
FullTurn == 360

LonStep == FullTurn \div LonCells

\* native longitude values the synthesis may put on the axis: 0 .. 360
LonGrid == {k * LonStep : k \in 0..LonCells}

\* every strictly increasing axis over the grid
NativeAxes == {SetToSortedSeq(S) : S \in (SUBSET LonGrid) \ {{}}}

\* np.where(lon_values > 180, lon_values - 360, lon_values)
remap_lon(lon_values) ==
    [i \in 1..Len(lon_values) |->
        IF lon_values[i] > HalfTurn THEN lon_values[i] - FullTurn
        ELSE lon_values[i]]

\* indices of keys in stable ascending order (np.lexsort inside sortby)
RECURSIVE SortIndices(_, _)
SortIndices(keys, left) ==
    IF left = {} THEN <<>>
    ELSE LET m == CHOOSE i \in left :
                    \A j \in left : keys[i] < keys[j]
                                    \/ (keys[i] = keys[j] /\ i <= j)
         IN  <<m>> \o SortIndices(keys, left \ {m})

\* DataArray.sortby("longitude"): reorder axis and columns together
sortby_longitude(a) ==
    LET perm == SortIndices(a.lon, 1..Len(a.lon))
    IN  [lon |-> [i \in 1..Len(perm) |-> a.lon[perm[i]]],
         col |-> [i \in 1..Len(perm) |-> a.col[perm[i]]]]

\* earth_geoid.to_xarray(): the collaborator hands back a native axis
ToXarray ==
    /\ g_pc = "to_xarray"
    /\ \E axis \in NativeAxes :
          array' = [lon |-> axis, col |-> [i \in 1..Len(axis) |-> i]]
    /\ g_pc' = "remap"
    /\ UNCHANGED <<new_array, tif>>
    /\ UNCHANGED notGeoid

\* new_array = array.copy(); new_array.coords["longitude"] = new_lon_values
RemapLongitude ==
    /\ g_pc = "remap"
    /\ new_array' = [lon |-> remap_lon(array.lon), col |-> array.col]
    /\ g_pc' = "sortby"
    /\ UNCHANGED <<array, tif>>
    /\ UNCHANGED notGeoid

\* new_array = new_array.sortby("longitude")
SortByLongitude ==
    /\ g_pc = "sortby"
    /\ new_array' = sortby_longitude(new_array)
    /\ g_pc' = "save"
    /\ UNCHANGED <<array, tif>>
    /\ UNCHANGED notGeoid

\* save_geoid_as_geotiff(new_array, output_path)
SaveGeoid ==
    /\ g_pc = "save"
    /\ tif' = new_array
    /\ g_pc' = "done"
    /\ UNCHANGED <<array, new_array>>
    /\ UNCHANGED notGeoid

GeoidIdle ==
    /\ g_pc = "to_xarray"
    /\ array = None
    /\ new_array = None
    /\ tif = None

GeoidNext == ToXarray \/ RemapLongitude \/ SortByLongitude \/ SaveGeoid

(***************************************************************************)
(* convert_raster_to_json.py                                               *)
(***************************************************************************)
MaxRows == 4
MaxCols == 4
MaxStride == 3
MaxNaN == 2                        \* NaN cells per source raster
HeightMod == 17                    \* heights are spread over this many values

Cell(v) == [nan |-> FALSE, v |-> v]
NaN == [nan |-> TRUE, v |-> 0]

NoRaster == [rows |-> 0, cols |-> 0, heights |-> <<>>, y |-> <<>>, x |-> <<>>]
NoOutput == [heights |-> <<>>, lats |-> <<>>, lons |-> <<>>,
             minHeight |-> NaN, maxHeight |-> NaN, shape |-> <<>>]
NoFile == [present |-> FALSE, content |-> NoOutput]

Seeds == {1, 5, 12}
Strides == (0 - MaxStride)..MaxStride

\* a single-band raster: heights vary with the seed, the cells of nanCells
\* (row-major cell numbers) are NaN; y runs north to south, x west to east
MakeRaster(rows, cols, seed, nanCells) ==
    [rows |-> rows, cols |-> cols,
     heights |-> [i \in 1..rows |-> [j \in 1..cols |->
                    LET n == (i - 1) * cols + j
                    IN  IF n \in nanCells THEN NaN
                        ELSE Cell(((n * seed) % HeightMod) - (HeightMod \div 2))]],
     y |-> [i \in 1..rows |-> 10 * (rows - i)],
     x |-> [j \in 1..cols |-> 10 * j]]

\* the subsets of S with at most k elements
RECURSIVE SmallSubsets(_, _)
SmallSubsets(S, k) ==
    IF k = 0 THEN {{}}
    ELSE LET smaller == SmallSubsets(S, k - 1)
         IN  smaller \cup {T \cup {x} : T \in smaller, x \in S}

NanMasks(rows, cols) == SmallSubsets(1..(rows * cols), MaxNaN)

\* SliceIndices with the count rounded down: the last partial stride is lost
SliceIndicesFloor(n, step) ==
    IF step > 0
    THEN [k \in 1..(n \div step) |-> (k - 1) * step + 1]
    ELSE [k \in 1..(n \div (0 - step)) |-> n + (k - 1) * step]

\* source positions (1-based) kept by the Python slice [::step] of a
\* length-n axis, step # 0: from the front for step > 0, from the back
\* for step < 0
SliceIndices(n, step) ==
    IF step > 0
    THEN [k \in 1..((n + step - 1) \div step) |-> (k - 1) * step + 1]
    ELSE [k \in 1..((n - step - 1) \div (0 - step)) |-> n + (k - 1) * step]

\* raster.isel(band=0).data[::downsample, ::downsample]
slice_data(r, step) ==
    LET ri == SliceIndices(r.rows, step)
        ci == SliceIndices(r.cols, step)
    IN  [i \in 1..Len(ri) |-> [j \in 1..Len(ci) |-> r.heights[ri[i]][ci[j]]]]

\* raster.y.values[::downsample], raster.x.values[::downsample]
slice_axis(axis, step) ==
    LET idx == SliceIndices(Len(axis), step)
    IN  [k \in 1..Len(idx) |-> axis[idx[k]]]

\* the non-NaN values of a 2-D array
FiniteValues(d) ==
    UNION {{d[i][j].v : j \in {c \in 1..Len(d[i]) : ~d[i][c].nan}} :
              i \in 1..Len(d)}

\* nanmin taken over the source raster instead of the decimated array
nanmin_of_source(d) ==
    LET vs == FiniteValues(raster.heights)
    IN  IF vs = {} THEN NaN
        ELSE Cell(CHOOSE m \in vs : \A v \in vs : m <= v)

\* np.nanmin: NaN cells are skipped; an all-NaN array gives NaN
nanmin(d) ==
    LET vs == FiniteValues(d)
    IN  IF vs = {} THEN NaN
        ELSE Cell(CHOOSE m \in vs : \A v \in vs : m <= v)

\* np.nanmax
nanmax(d) ==
    LET vs == FiniteValues(d)
    IN  IF vs = {} THEN NaN
        ELSE Cell(CHOOSE m \in vs : \A v \in vs : m >= v)

\* data.shape
shape_of(d) == <<Len(d), IF Len(d) = 0 THEN 0 ELSE Len(d[1])>>

\* rioxarray.open_rasterio(input_path) on a path that resolves
OpenRaster ==
    /\ s_pc = "open"
    /\ \E rows \in 1..MaxRows, cols \in 1..MaxCols, seed \in Seeds,
          step \in Strides :
          \E mask \in NanMasks(rows, cols) :
             /\ raster' = MakeRaster(rows, cols, seed, mask)
             /\ downsample' = step
    /\ s_pc' = "slice"
    /\ UNCHANGED <<data, lats, lons, min_val, max_val, output_data,
                   json_file, s_err>>
    /\ UNCHANGED notSample

\* rioxarray.open_rasterio(input_path) on a path that does not resolve
OpenRasterFails ==
    /\ s_pc = "open"
    /\ \E step \in Strides : downsample' = step
    /\ s_err' = "RasterioIOError"
    /\ s_pc' = "raised"
    /\ UNCHANGED <<raster, data, lats, lons, min_val, max_val, output_data,
                   json_file>>
    /\ UNCHANGED notSample

\* the three slices; a zero step makes the first of them raise
SliceRaster ==
    /\ s_pc = "slice"
    /\ IF downsample = 0
       THEN /\ s_err' = "ValueError"
            /\ s_pc' = "raised"
            /\ UNCHANGED <<data, lats, lons>>
       ELSE /\ data' = slice_data(raster, downsample)
            /\ lats' = slice_axis(raster.y, downsample)
            /\ lons' = slice_axis(raster.x, downsample)
            /\ s_pc' = "extrema"
            /\ UNCHANGED s_err
    /\ UNCHANGED <<raster, downsample, min_val, max_val, output_data, json_file>>
    /\ UNCHANGED notSample

\* min_val = float(np.nanmin(data)); max_val = float(np.nanmax(data))
Extrema ==
    /\ s_pc = "extrema"
    /\ min_val' = nanmin(data)
    /\ max_val' = nanmax(data)
    /\ s_pc' = "build"
    /\ UNCHANGED <<raster, downsample, data, lats, lons, output_data,
                   json_file, s_err>>
    /\ UNCHANGED notSample

\* output_data = {...}
BuildOutput ==
    /\ s_pc = "build"
    /\ output_data' = [heights |-> data, lats |-> lats, lons |-> lons,
                       minHeight |-> min_val, maxHeight |-> max_val,
                       shape |-> shape_of(data)]
    /\ s_pc' = "dump"
    /\ UNCHANGED <<raster, downsample, data, lats, lons, min_val, max_val,
                   json_file, s_err>>
    /\ UNCHANGED notSample

\* json.dump(output_data, f); return output_data
DumpJson ==
    /\ s_pc = "dump"
    /\ json_file' = [present |-> TRUE, content |-> output_data]
    /\ s_pc' = "returned"
    /\ UNCHANGED <<raster, downsample, data, lats, lons, min_val, max_val,
                   output_data, s_err>>
    /\ UNCHANGED notSample

SampleIdle ==
    /\ s_pc = "open"
    /\ raster = NoRaster
    /\ downsample = 1
    /\ data = <<>>
    /\ lats = <<>>
    /\ lons = <<>>
    /\ min_val = NaN
    /\ max_val = NaN
    /\ output_data = NoOutput
    /\ json_file = NoFile
    /\ s_err = "none"

SampleNext ==
    \/ OpenRaster
    \/ OpenRasterFails
    \/ SliceRaster
    \/ Extrema
    \/ BuildOutput
    \/ DumpJson

(***************************************************************************)
(* clean_world_geojson.py                                                  *)
(*                                                                         *)
(* A geometry is [type, parts].  A single-part geometry has exactly one    *)
(* part, the sequence of its coordinate sequences: the rings of a Polygon  *)
(* (exterior first), the one line of a LineString, the one position of a   *)
(* Point; it is empty when that part is <<>>.  A multi-part geometry has   *)
(* one such part per member.                                               *)
(***************************************************************************)
MaxFeatures == 2                   \* features of the source collection
MaxRuns == 2                       \* calls, the later ones on the output file

Polygon(rings) == [type |-> "Polygon", parts |-> <<rings>>]
LineString(coords) == [type |-> "LineString", parts |-> <<<<coords>>>>]
Point(p) == [type |-> "Point", parts |-> <<<<<<p>>>>>>]
MultiPolygon(polys) ==
    [type |-> "MultiPolygon", parts |-> [k \in 1..Len(polys) |-> polys[k].parts[1]]]
MultiLineString(lines) ==
    [type |-> "MultiLineString", parts |-> [k \in 1..Len(lines) |-> lines[k].parts[1]]]
MultiPoint(points) ==
    [type |-> "MultiPoint", parts |-> [k \in 1..Len(points) |-> points[k].parts[1]]]
EmptyGeometryCollection == [type |-> "GeometryCollection", parts |-> <<>>]

MultiTypes == {"MultiPolygon", "MultiLineString", "MultiPoint", "GeometryCollection"}

MemberType(t) ==
    CASE t = "MultiPolygon" -> "Polygon"
      [] t = "MultiLineString" -> "LineString"
      [] t = "MultiPoint" -> "Point"

\* shapely.get_parts: the members of a multi-part geometry (none when it is
\* empty), a single-part geometry itself
get_parts(g) ==
    IF g.type \in MultiTypes
    THEN [k \in 1..Len(g.parts) |-> [type |-> MemberType(g.type), parts |-> <<g.parts[k]>>]]
    ELSE <<g>>

\* boundary that keeps the exterior ring only and loses the holes
boundary_exterior_only(g) ==
    LET p == g.parts[1]
    IN  CASE g.type = "Polygon" ->
                IF Len(p) = 0 THEN MultiLineString(<<>>) ELSE LineString(p[1])
          [] g.type = "LineString" ->
                IF Len(p) = 0 THEN MultiPoint(<<>>)
                ELSE IF p[1][1] = p[1][Len(p[1])] THEN MultiPoint(<<>>)
                ELSE MultiPoint(<<Point(p[1][1]), Point(p[1][Len(p[1])])>>)
          [] g.type = "Point" -> EmptyGeometryCollection

\* GeoSeries.boundary on a single-part geometry
boundary(g) ==
    LET p == g.parts[1]
    IN  CASE g.type = "Polygon" ->
                IF Len(p) = 0 THEN MultiLineString(<<>>)
                ELSE IF Len(p) = 1 THEN LineString(p[1])
                ELSE MultiLineString([k \in 1..Len(p) |-> LineString(p[k])])
          [] g.type = "LineString" ->
                IF Len(p) = 0 THEN MultiPoint(<<>>)
                ELSE IF p[1][1] = p[1][Len(p[1])] THEN MultiPoint(<<>>)
                ELSE MultiPoint(<<Point(p[1][1]), Point(p[1][Len(p[1])])>>)
          [] g.type = "Point" -> EmptyGeometryCollection

\* GeoDataFrame.explode(index_parts=True).reset_index(drop=True): one row per
\* part, in order, each with the properties of the row it came from
RECURSIVE explode(_)
explode(frame) ==
    IF frame = <<>> THEN <<>>
    ELSE LET f == Head(frame)
             ps == get_parts(f.geometry)
         IN  [k \in 1..Len(ps) |-> [id |-> f.id, geometry |-> ps[k]]]
             \o explode(Tail(frame))

\* gdf_exploded["geometry"] = gdf_exploded.boundary
with_boundary(frame) ==
    [k \in 1..Len(frame) |-> [id |-> frame[k].id, geometry |-> boundary(frame[k].geometry)]]

RingA == <<1, 2, 3, 1>>
RingB == <<4, 5, 6, 4>>
HoleA == <<7, 8, 9, 7>>
OpenLine == <<1, 2, 3>>

GeomInputs ==
    { Polygon(<<RingA>>),
      Polygon(<<RingA, HoleA>>),
      Polygon(<<>>),
      MultiPolygon(<<Polygon(<<RingA>>), Polygon(<<RingB>>)>>),
      MultiPolygon(<<Polygon(<<RingA, HoleA>>), Polygon(<<RingB>>)>>),
      MultiPolygon(<<>>),
      LineString(RingA),
      LineString(OpenLine),
      MultiLineString(<<LineString(OpenLine), LineString(RingB)>>),
      Point(1) }

\* the collections a source file can hold
Collections ==
    UNION {[1..n -> GeomInputs] : n \in 0..MaxFeatures}

NoBoundaryFile == [present |-> FALSE, content |-> <<>>]

\* gdf = gpd.read_file(source_url)
ReadFile ==
    /\ b_pc = "read"
    /\ \E c \in Collections :
          gdf' = [k \in 1..Len(c) |-> [id |-> k, geometry |-> c[k]]]
    /\ run' = run + 1
    /\ b_pc' = "explode1"
    /\ UNCHANGED <<gdf_exploded, gdf_linestrings, boundary_file>>
    /\ UNCHANGED notBoundary

\* gdf_exploded = gdf.explode(index_parts=True).reset_index(drop=True)
ExplodeParts ==
    /\ b_pc = "explode1"
    /\ gdf_exploded' = explode(gdf)
    /\ b_pc' = "boundary"
    /\ UNCHANGED <<run, gdf, gdf_linestrings, boundary_file>>
    /\ UNCHANGED notBoundary

\* gdf_exploded["geometry"] = gdf_exploded.boundary
ExtractBoundary ==
    /\ b_pc = "boundary"
    /\ gdf_exploded' = with_boundary(gdf_exploded)
    /\ b_pc' = "explode2"
    /\ UNCHANGED <<run, gdf, gdf_linestrings, boundary_file>>
    /\ UNCHANGED notBoundary

\* gdf_linestrings = gdf_exploded.explode(index_parts=True).reset_index(drop=True)
ExplodeBoundaries ==
    /\ b_pc = "explode2"
    /\ gdf_linestrings' = explode(gdf_exploded)
    /\ b_pc' = "write"
    /\ UNCHANGED <<run, gdf, gdf_exploded, boundary_file>>
    /\ UNCHANGED notBoundary

\* gdf_linestrings.to_file(output_path, driver="GeoJSON"); return
ToFile ==
    /\ b_pc = "write"
    /\ boundary_file' = [present |-> TRUE, content |-> gdf_linestrings]
    /\ b_pc' = "returned"
    /\ UNCHANGED <<run, gdf, gdf_exploded, gdf_linestrings>>
    /\ UNCHANGED notBoundary

\* a further call whose source_url is the file the last call wrote
ReadOutputAgain ==
    /\ b_pc = "returned"
    /\ run < MaxRuns
    /\ gdf' = boundary_file.content
    /\ run' = run + 1
    /\ b_pc' = "explode1"
    /\ UNCHANGED <<gdf_exploded, gdf_linestrings, boundary_file>>
    /\ UNCHANGED notBoundary

BoundaryIdle ==
    /\ b_pc = "read"
    /\ run = 0
    /\ gdf = <<>>
    /\ gdf_exploded = <<>>
    /\ gdf_linestrings = <<>>
    /\ boundary_file = NoBoundaryFile

BoundaryNext ==
    \/ ReadFile
    \/ ExplodeParts
    \/ ExtractBoundary
    \/ ExplodeBoundaries
    \/ ToFile
    \/ ReadOutputAgain

(***************************************************************************)
(* pipeline.py                                                             *)
(***************************************************************************)
LmaxMin == 1
LmaxMax == 2160
LmaxDefault == 800
DownsampleMin == 1

Paths == {"data/egm2008_geoid_heights.tif",
          "public/data/egm2008_geoid_heights.json",
          "public/data/world_boundaries.json"}
Dirs == {"data", "public/data"}

\* Path.parent
Parent(path) == IF path = "data/egm2008_geoid_heights.tif" THEN "data" ELSE "public/data"

LmaxInputs == {LmaxMin - 1, LmaxMin, LmaxDefault, LmaxMax, LmaxMax + 1}
DownsampleInputs == {DownsampleMin - 2, DownsampleMin - 1, DownsampleMin,
                     DownsampleMin + 1}

NoConfig == [lmax |-> 0, downsample |-> 0, geotiff_path |-> "",
             json_path |-> "", world_boundaries_path |-> ""]

\* validate_config with the upper limit of lmax off by one
validate_config_loose(a) ==
    /\ a.lmax >= LmaxMin
    /\ a.lmax <= LmaxMax + 1
    /\ a.downsample >= DownsampleMin

\* the Field constraints of PipelineConfig: ge=1, le=2160 and ge=1
validate_config(a) ==
    /\ a.lmax >= LmaxMin
    /\ a.lmax <= LmaxMax
    /\ a.downsample >= DownsampleMin

\* an existence check that always passes
path_exists_unchecked(path, files) == TRUE

\* Path.exists()
path_exists(path, files) == path \in files

\* a handler that logs and swallows the exception
main_swallow(e) == "none"

\* the handler of main: logger.exception, then raise
main_reraise(e) == e

\* PipelineConfig(...): pydantic validates the fields on construction
ConstructConfig ==
    /\ p_pc = "construct"
    /\ \E l \in LmaxInputs, d \in DownsampleInputs, g \in Paths, j \in Paths,
          w \in Paths :
          LET a == [lmax |-> l, downsample |-> d, geotiff_path |-> g,
                    json_path |-> j, world_boundaries_path |-> w]
          IN  /\ args' = a
              /\ IF validate_config(a)
                 THEN /\ config' = a
                      /\ p_pc' = "mkdir1"
                      /\ UNCHANGED <<p_err, exit_err>>
                 ELSE /\ p_err' = "ValidationError"
                      /\ exit_err' = "ValidationError"
                      /\ p_pc' = "exited"
                      /\ UNCHANGED config
    /\ UNCHANGED <<fs, fs0, dirs, uncreatable, outcome, log>>
    /\ UNCHANGED notPipe

\* <path>.parent.mkdir(parents=True, exist_ok=True), one statement
Mkdir(at, path, next) ==
    /\ p_pc = at
    /\ IF Parent(path) \in uncreatable
       THEN /\ p_err' = "OSError"
            /\ p_pc' = "failed"
            /\ UNCHANGED dirs
       ELSE /\ dirs' = dirs \cup {Parent(path)}
            /\ p_pc' = next
            /\ UNCHANGED p_err
    /\ UNCHANGED <<args, config, fs, fs0, uncreatable, outcome, log, exit_err>>
    /\ UNCHANGED notPipe

MkdirGeotiff == Mkdir("mkdir1", config.geotiff_path, "mkdir2")
MkdirJson == Mkdir("mkdir2", config.json_path, "mkdir3")
MkdirBoundaries == Mkdir("mkdir3", config.world_boundaries_path, "step1")

\* a stage call: it logs its start, then either returns or raises; in both
\* cases its output file may or may not be there afterwards
Stage(at, name, path, next) ==
    /\ p_pc = at
    /\ \E raised \in BOOLEAN, present \in BOOLEAN :
          /\ fs' = IF present THEN fs \cup {path} ELSE fs \ {path}
          /\ IF raised
             THEN /\ outcome' = "raised"
                  /\ p_err' = "StageError"
                  /\ p_pc' = "failed"
             ELSE /\ outcome' = "returned"
                  /\ p_pc' = next
                  /\ UNCHANGED p_err
    /\ log' = Append(log, name)
    /\ UNCHANGED <<args, config, fs0, dirs, uncreatable, exit_err>>
    /\ UNCHANGED notPipe

\* if not <path>.exists(): raise FileNotFoundError(...); logger.info("saved")
Check(at, name, path, next) ==
    /\ p_pc = at
    /\ IF path_exists(path, fs)
       THEN /\ log' = Append(log, name)
            /\ p_pc' = next
            /\ UNCHANGED p_err
       ELSE /\ p_err' = "FileNotFoundError"
            /\ p_pc' = "failed"
            /\ UNCHANGED log
    /\ UNCHANGED <<args, config, fs, fs0, dirs, uncreatable, outcome, exit_err>>
    /\ UNCHANGED notPipe

GenerateGeoid == Stage("step1", "start1", config.geotiff_path, "check1")
CheckGeotiff == Check("check1", "saved1", config.geotiff_path, "step2")
GeotiffToJson == Stage("step2", "start2", config.json_path, "check2")
CheckJson == Check("check2", "saved2", config.json_path, "step3")
CleanWorldGeojson == Stage("step3", "start3", config.world_boundaries_path, "check3")
CheckBoundaries == Check("check3", "saved3", config.world_boundaries_path, "finish")

\* logger.info("Pipeline completed successfully!"); run_pipeline returns
Complete ==
    /\ p_pc = "finish"
    /\ log' = Append(log, "completed")
    /\ p_pc' = "complete"
    /\ UNCHANGED <<args, config, fs, fs0, dirs, uncreatable, outcome, p_err,
                   exit_err>>
    /\ UNCHANGED notPipe

\* main returns after run_pipeline returned
MainReturns ==
    /\ p_pc = "complete"
    /\ p_pc' = "exited"
    /\ UNCHANGED <<args, config, fs, fs0, dirs, uncreatable, outcome, log, p_err,
                   exit_err>>
    /\ UNCHANGED notPipe

\* except Exception as e: logger.exception(...); raise
MainExcept ==
    /\ p_pc = "failed"
    /\ log' = Append(log, "exception")
    /\ exit_err' = main_reraise(p_err)
    /\ p_pc' = "exited"
    /\ UNCHANGED <<args, config, fs, fs0, dirs, uncreatable, outcome, p_err>>
    /\ UNCHANGED notPipe

PipelineControlIdle ==
    /\ p_pc = "construct"
    /\ args = NoConfig
    /\ config = NoConfig
    /\ outcome = "none"
    /\ log = <<>>
    /\ p_err = "none"
    /\ exit_err = "none"

PipelineIdle ==
    /\ PipelineControlIdle
    /\ fs = {}
    /\ fs0 = {}
    /\ dirs = {}
    /\ uncreatable = {}

\* the file system the run starts in: any files may already be there, in
\* directories that exist; a directory that cannot be created does not exist
PipelineInit ==
    /\ PipelineControlIdle
    /\ fs \in SUBSET Paths
    /\ fs0 = fs
    /\ dirs = {Parent(f) : f \in fs}
    /\ uncreatable \in SUBSET (Dirs \ dirs)

PipelineNext ==
    \/ ConstructConfig
    \/ MkdirGeotiff
    \/ MkdirJson
    \/ MkdirBoundaries
    \/ GenerateGeoid
    \/ CheckGeotiff
    \/ GeotiffToJson
    \/ CheckJson
    \/ CleanWorldGeojson
    \/ CheckBoundaries
    \/ Complete
    \/ MainReturns
    \/ MainExcept

(***************************************************************************)
(* Specifications                                                          *)
(***************************************************************************)
InitGeoid == GeoidIdle /\ SampleIdle /\ BoundaryIdle /\ PipelineIdle
SpecGeoid == InitGeoid /\ [][GeoidNext]_vars

InitSample == GeoidIdle /\ SampleIdle /\ BoundaryIdle /\ PipelineIdle
SpecSample == InitSample /\ [][SampleNext]_vars

InitBoundary == GeoidIdle /\ SampleIdle /\ BoundaryIdle /\ PipelineIdle
SpecBoundary == InitBoundary /\ [][BoundaryNext]_vars

InitPipeline == GeoidIdle /\ SampleIdle /\ BoundaryIdle /\ PipelineInit
SpecPipeline == InitPipeline /\ [][PipelineNext]_vars

(***************************************************************************)
(* Properties                                                              *)
(***************************************************************************)

\* C1: the longitude axis generate_geoid writes is strictly increasing and
\* every value v on it satisfies -180 <= v < 180
C1_LongitudeNormalized ==
    g_pc = "done" =>
        /\ StrictlyIncreasing(tif.lon)
        /\ \A v \in Range(tif.lon) : (0 - HalfTurn) <= v /\ v < HalfTurn

AllOfType(frame, types) ==
    \A k \in 1..Len(frame) : frame[k].geometry.type \in types

RECURSIVE RingCount(_)
RingCount(parts) ==
    IF parts = <<>> THEN 0 ELSE Len(Head(parts)) + RingCount(Tail(parts))

RECURSIVE TotalRings(_)
TotalRings(frame) ==
    IF frame = <<>> THEN 0
    ELSE RingCount(Head(frame).geometry.parts) + TotalRings(Tail(frame))

\* C2: for a source collection of Polygon and MultiPolygon geometries only,
\* the collection written and returned holds LineStrings only, as many as
\* there are rings (exterior and holes) in all the exploded polygons
C2_RingCount ==
    (b_pc = "returned" /\ AllOfType(gdf, {"Polygon", "MultiPolygon"})) =>
        /\ AllOfType(gdf_linestrings, {"LineString"})
        /\ Len(gdf_linestrings) = TotalRings(gdf)
        /\ boundary_file = [present |-> TRUE, content |-> gdf_linestrings]

\* C2 witness: a MultiPolygon with a holed member has been decomposed into
\* at least three LineStrings
C2_Witness ==
    /\ b_pc = "returned"
    /\ gdf # <<>>
    /\ AllOfType(gdf, {"Polygon", "MultiPolygon"})
    /\ \E k \in 1..Len(gdf) :
          /\ gdf[k].geometry.type = "MultiPolygon"
          /\ \E m \in 1..Len(gdf[k].geometry.parts) :
                Len(gdf[k].geometry.parts[m]) >= 2
    /\ Len(boundary_file.content) >= 3

CeilDiv(n, s) == CHOOSE k \in 0..n : k * s >= n /\ (k - 1) * s < n

\* C3: for a stride >= 1 the grid returned is the stride decimation from
\* index 0 of heights, lats and lons, and shape is
\* (ceil(rows/stride), ceil(cols/stride)), the dimensions of heights
C3_StrideDecimation ==
    (s_pc = "returned" /\ downsample >= 1) =>
        LET o == output_data
            s == downsample
            nr == CeilDiv(raster.rows, s)
            nc == CeilDiv(raster.cols, s)
        IN  /\ o.shape = <<nr, nc>>
            /\ Len(o.heights) = nr
            /\ Len(o.lats) = nr
            /\ Len(o.lons) = nc
            /\ \A i \in 1..nr :
                  /\ Len(o.heights[i]) = nc
                  /\ o.lats[i] = raster.y[(i - 1) * s + 1]
                  /\ \A j \in 1..nc :
                        o.heights[i][j] = raster.heights[(i - 1) * s + 1][(j - 1) * s + 1]
            /\ \A j \in 1..nc : o.lons[j] = raster.x[(j - 1) * s + 1]

\* C3 witness: stride 2 on a 4x4 raster has returned a 2x2 grid
C3_Witness ==
    /\ s_pc = "returned"
    /\ downsample = 2
    /\ raster.rows = 4
    /\ raster.cols = 4
    /\ output_data.shape = <<2, 2>>

\* C4: stage 2 runs only while the geoid raster exists, stage 3 only while
\* the sampled-grid JSON exists, and the run completes only with all three
\* artifacts on disk
C4_ArtifactsGateStages ==
    /\ p_pc = "step2" => config.geotiff_path \in fs
    /\ p_pc = "step3" => config.json_path \in fs
    /\ (p_pc \in {"finish", "complete"} \/ (p_pc = "exited" /\ exit_err = "none")) =>
          {config.geotiff_path, config.json_path, config.world_boundaries_path}
              \subseteq fs

\* C4 witness: a run has completed whose raster file was there before it
\* started, on three different paths
C4_Witness ==
    /\ p_pc = "complete"
    /\ config.geotiff_path \in fs0
    /\ Cardinality({config.geotiff_path, config.json_path,
                    config.world_boundaries_path}) = 3

\* the cells of a grid that are not NaN
FiniteCells(grid) ==
    UNION {{<<i, j>> : j \in {c \in 1..Len(grid[i]) : ~grid[i][c].nan}} :
              i \in 1..Len(grid)}

\* C5: when the returned grid has a non-NaN cell, minHeight and maxHeight
\* are each the value of one of its cells and bound all its non-NaN cells;
\* a NaN of the source at a retained position is a NaN of heights
C5_Extrema ==
    s_pc = "returned" =>
        LET o == output_data
            cells == FiniteCells(o.heights)
        IN  /\ cells # {} =>
                  /\ ~o.minHeight.nan
                  /\ ~o.maxHeight.nan
                  /\ \E c \in cells : o.heights[c[1]][c[2]].v = o.minHeight.v
                  /\ \E c \in cells : o.heights[c[1]][c[2]].v = o.maxHeight.v
                  /\ \A c \in cells :
                        /\ o.minHeight.v <= o.heights[c[1]][c[2]].v
                        /\ o.heights[c[1]][c[2]].v <= o.maxHeight.v
            /\ downsample >= 1 =>
                  \A i \in 1..Len(o.heights) : \A j \in 1..Len(o.heights[i]) :
                      raster.heights[(i - 1) * downsample + 1]
                                    [(j - 1) * downsample + 1].nan
                          => o.heights[i][j].nan

\* C5 witness: a decimated grid with a NaN cell and a finite cell has been
\* returned whose minimum is above a value the stride skipped
C5_Witness ==
    /\ s_pc = "returned"
    /\ downsample >= 2
    /\ FiniteCells(output_data.heights) # {}
    /\ \E i \in 1..Len(output_data.heights) :
          \E j \in 1..Len(output_data.heights[i]) : output_data.heights[i][j].nan
    /\ \E c \in FiniteCells(raster.heights) :
          raster.heights[c[1]][c[2]].v < output_data.minHeight.v

\* C6: on a collection of LineStrings only, the decomposition writes the
\* collection it read, feature for feature
C6_NoOpOnLineStrings ==
    (b_pc = "returned" /\ AllOfType(gdf, {"LineString"})) =>
        boundary_file.content = gdf

\* C7: what is written to the boundary file holds LineStrings only; a
\* call whose second explode yields anything else does not return
C7_OnlyLineStringsWritten ==
    /\ boundary_file.present => AllOfType(boundary_file.content, {"LineString"})
    /\ b_pc = "returned" => AllOfType(gdf_linestrings, {"LineString"})

\* the artifact whose existence is tested at the given position
CheckedPath(pc) ==
    CASE pc = "check1" -> config.geotiff_path
      [] pc = "check2" -> config.json_path
      [] pc = "check3" -> config.world_boundaries_path

\* C8: a stage that raises, or whose artifact is missing after it returned,
\* puts the run in Failed at once; from Failed nothing more is started or
\* written, success is never logged, and the same error leaves main
C8_FailFast ==
    /\ [](outcome = "raised" => (p_pc \in {"failed", "exited"} /\ p_err = "StageError"))
    /\ [](p_err # "none" => (/\ p_pc \in {"failed", "exited"}
                             /\ "completed" \notin Range(log)))
    /\ []((p_pc = "exited" /\ p_err # "none") => exit_err = p_err)
    /\ [][(p_pc \in {"check1", "check2", "check3"} /\ CheckedPath(p_pc) \notin fs)
             => (p_pc' = "failed" /\ p_err' = "FileNotFoundError" /\ log' = log)]_vars
    /\ [][p_pc = "failed"
             => (/\ p_pc' = "exited"
                 /\ exit_err' = p_err
                 /\ fs' = fs
                 /\ log' = Append(log, "exception"))]_vars

\* C8 witness: the third stage raised and its error has left main
C8_Witness ==
    /\ p_pc = "exited"
    /\ outcome = "raised"
    /\ log = <<"start1", "saved1", "start2", "saved2", "start3", "exception">>
    /\ exit_err = "StageError"

ValidArgs(a) == a.lmax \in LmaxMin..LmaxMax /\ a.downsample >= DownsampleMin

Creatable(a) ==
    \A q \in {a.geotiff_path, a.json_path, a.world_boundaries_path} :
        Parent(q) \notin uncreatable

\* C9: with a degree outside [1, 2160], a stride below 1 or an output
\* directory that cannot be created, the run ends before the synthesis
\* stage starts and the files are as they were; a configuration with none
\* of these is accepted and reaches the stages
C9_ValidatedBeforeStages ==
    p_pc # "construct" =>
        /\ ~ValidArgs(args) => (p_pc = "exited" /\ exit_err = "ValidationError")
        /\ ~(ValidArgs(args) /\ Creatable(args)) =>
              /\ "start1" \notin Range(log)
              /\ fs = fs0
              /\ p_pc \in {"mkdir1", "mkdir2", "mkdir3", "failed", "exited"}
        /\ ValidArgs(args) => (config = args /\ p_err # "ValidationError")
        /\ (ValidArgs(args) /\ Creatable(args)) =>
              /\ p_err # "OSError"
              /\ p_pc \in {"failed", "exited"} => "start1" \in Range(log)

\* C9 witness: a degree of 2161 has been refused on construction
C9_Witness ==
    /\ p_pc = "exited"
    /\ args.lmax = LmaxMax + 1
    /\ args.downsample >= DownsampleMin
    /\ exit_err = "ValidationError"
    /\ log = <<>>

\* C10: a call with a stride below 1 never gets past the slicing and
\* leaves no sampled-grid file
C10_RejectsBadStride ==
    downsample < 1 =>
        /\ s_pc \notin {"extrema", "build", "dump", "returned"}
        /\ ~json_file.present

====
